---- MODULE Spec2Model ----
(***************************************************************************)
(* Enrollment subsystem of the extra-curricular ERP backend:               *)
(*   - the enhanced enrollment controller (registerStudent,                *)
(*     cancelEnrollment, addToWaitlist, promoteFromWaitlist)               *)
(*   - the enrollment handlers of controllers/activityController.js        *)
(*     (enrollStudent, withdrawEnrollment, updateEnrollmentStatus,         *)
(*     deleteEnrollment)                                                   *)
(*   - the MySQL schema (unique keys, defaults) and the connection wrapper *)
(*     (transactions: beginTransaction / commit / rollback).               *)
(*                                                                         *)
(* The committed tables are the variables enrollments and waitlist.  A     *)
(* cancelEnrollment transaction buffers its writes in tx[p] until commit;  *)
(* rollback discards the buffer.  SELECT ... FOR UPDATE is a lock that is  *)
(* held until the transaction ends.                                        *)
(***************************************************************************)
EXTENDS Integers, Sequences, FiniteSets, TLC

VARIABLES
    activities,   \* activities table: id -> row
    schedules,    \* activity_schedules table: set of rows
    enrollments,  \* activity_enrollments table (committed rows)
    waitlist,     \* activity_waitlist table (committed rows)
    nextEid,      \* AUTO_INCREMENT of activity_enrollments
    nextWid,      \* AUTO_INCREMENT of activity_waitlist
    pc,           \* per request worker: position in its handler
    req,          \* per request worker: the request being handled
    tx,           \* per request worker: uncommitted writes of its transaction
    response,     \* the response most recently sent
    conflicts,    \* enrollment_conflicts table: number of rows per conflict_type
    conn          \* per request worker: the pooled connection of its handler

vars == <<activities, schedules, enrollments, waitlist, nextEid, nextWid,
          pc, req, tx, response, conflicts, conn>>

-----------------------------------------------------------------------------
(* Bounds of the model *)

NStudents == 4
NActs == 2
NProcs == 2
NAllStudents == 2
MaxEid == 3
MaxWid == 3
MaxPriority == 1
MaxTime == 3
MaxConflicts == 3
NUsers == 3

(* Program constant: the fallback of `quota || max_students || 30` *)
DefaultQuota == 30

Students == 1..NStudents
Acts == 1..NActs
Procs == 1..NProcs
AllStudents == 1..NAllStudents
Priorities == 0..MaxPriority
Days == {"monday", "tuesday"}
EnrollmentStatuses == {"active", "approved", "rejected", "withdrawn", "completed"}
ConflictTypes == {"time_overlap", "grade_restriction", "quota_full"}

Max(S) == CHOOSE x \in S : \A y \in S : y <= x

-----------------------------------------------------------------------------
(* Schema data *)

ActivityRow(a) ==
    [status |-> "active",
     quota |-> a,
     max_students |-> a,
     min_grade |-> IF a = 1 THEN 1 ELSE 2,
     max_grade |-> 2,
     window |-> "open"]

ScheduleRow(a) ==
    [id |-> a, activity_id |-> a, venue_id |-> 1, instructor_id |-> a,
     day_of_week |-> "monday",
     start_time |-> a, end_time |-> a + 2, is_active |-> TRUE]

NoReq == [op |-> "none", student |-> 0, activity |-> 0, grade |-> 0,
          eid |-> 0, count |-> 0, promoted |-> 0, quotaOverride |-> FALSE]

NoTx == [withdrawn |-> FALSE, newEnr |-> {}, selected |-> {}, promotedWl |-> {},
         wlLock |-> 0]

NoResponse == [op |-> "none", code |-> "none", position |-> 0, promoted |-> 0,
               venue_warning |-> FALSE]

Reply(op, code) ==
    [op |-> op, code |-> code, position |-> 0, promoted |-> 0,
     venue_warning |-> FALSE]

-----------------------------------------------------------------------------
(* Tables *)

EnrollmentRow(id, s, a, status, notes) ==
    [id |-> id, student_id |-> s, activity_id |-> a, status |-> status,
     notes |-> notes, performance_remarks |-> "none", cancelled_at |-> FALSE]

WaitlistRow(id, s, a, position) ==
    [id |-> id, student_id |-> s, activity_id |-> a, position |-> position,
     priority |-> 0, status |-> "waiting"]

\* the table without the unique key on (student_id, activity_id)
NoUniqueEnrollment(tbl, s, a) == TRUE

\* UNIQUE KEY unique_enrollment (student_id, activity_id)
UniqueEnrollment(tbl, s, a) ==
    ~ \E e \in tbl : e.student_id = s /\ e.activity_id = a

\* UNIQUE KEY unique_waitlist (student_id, activity_id)
UniqueWaitlist(tbl, s, a) ==
    ~ \E w \in tbl : w.student_id = s /\ w.activity_id = a

\* enrollment_conflicts with no row
NoConflicts == [t \in ConflictTypes |-> 0]

\* logEnrollmentConflict: INSERT INTO enrollment_conflicts (..., conflict_type)
LogEnrollmentConflict(log, type) == [log EXCEPT ![type] = @ + 1]

ConflictRows(log) == log["time_overlap"] + log["grade_restriction"] + log["quota_full"]

\* an UPDATE without its WHERE clause
\* a row of activities is present until deleteActivity removes it; a removed
\* row is kept in the function with a status that no query matches
ActivityExists(a) == a \in Acts /\ activities[a].status # "deleted"

RemoveRow(tbl, id, status) == {e \in tbl : e.id # id}

SetStatusAll(tbl, id, status) ==
    {[e EXCEPT !.status = status] : e \in tbl}

SetStatus(tbl, id, status) ==
    {IF e.id = id THEN [e EXCEPT !.status = status] ELSE e : e \in tbl}

\* COUNT(ae.id) ... ae.status = 'active'
ActiveCount(tbl, a) ==
    Cardinality({e \in tbl : e.activity_id = a /\ e.status = "active"})

-----------------------------------------------------------------------------
(* The connection wrapper of getClient: a connection is pooled, held by a   *)
(* handler, or held with a transaction open                                 *)

\* a handler that returns without releasing its connection
NoRelease(c) == c

\* a handler that returns without ending its transaction
NoEndTransaction(c) == c

\* pool.getConnection()
GetClient(c) == "held"

\* connection.beginTransaction()
BeginTransaction(c) == IF c = "held" THEN "in_tx" ELSE c

\* connection.commit() or connection.rollback(); with no transaction open
\* both do nothing
EndTransaction(c) == IF c = "in_tx" THEN "held" ELSE c

\* connection.release()
Release(c) ==
    IF c = "held" THEN "pooled"
    ELSE IF c = "in_tx" THEN "released_in_tx"
    ELSE "released_twice"

-----------------------------------------------------------------------------
(* Locks taken by SELECT ... FOR UPDATE, held until commit or rollback *)

InCancel(p) == pc[p] \in {"cancel_updated", "cancel_inserted", "cancel_ready"}

\* activities row (and its joined active enrollment rows) locked by registerStudent
ActivityLocked(a) ==
    \E q \in Procs : pc[q] = "reg_locked" /\ req[q].activity = a

\* enrollment row locked by cancelEnrollment
RowLockedByCancel(id) ==
    \E q \in Procs : InCancel(q) /\ req[q].eid = id

CancelInActivity(a) ==
    \E q \in Procs : InCancel(q) /\ req[q].activity = a

EnrollmentRowLocked(e) ==
    \/ RowLockedByCancel(e.id)
    \/ e.status = "active" /\ ActivityLocked(e.activity_id)

WaitlistLocked(a) ==
    \E q \in Procs : tx[q].wlLock = a

InFlight == Cardinality({q \in Procs : pc[q] # "idle"})

\* bounds on the AUTO_INCREMENT counters: every request in flight can still
\* consume one value
CanInsertEnrollment == nextEid + InFlight <= MaxEid

CanInsertWaitlist == nextWid + InFlight <= MaxWid

\* an uncommitted INSERT of a cancelEnrollment transaction holds the unique
\* index entry: another INSERT of the same pair waits for that transaction
\* bound on the rows of enrollment_conflicts
CanLogConflictIn(log) == ConflictRows(log) + InFlight < MaxConflicts

CanLogConflict == CanLogConflictIn(conflicts)

PendingInsert(s, a) ==
    \E q \in Procs : \E e \in tx[q].newEnr : e.student_id = s /\ e.activity_id = a

-----------------------------------------------------------------------------
(* Conflict checker: the three-clause overlap condition of the SQL *)

\* the first clause written with <= : intervals that touch count as overlapping
ClosedIntervalOverlap(t, s) ==
    \/ t.start_time >= s.start_time /\ t.start_time <= s.end_time
    \/ t.end_time > s.start_time /\ t.end_time <= s.end_time
    \/ t.start_time <= s.start_time /\ t.end_time >= s.end_time

\* (t.start >= s.start AND t.start < s.end) OR (t.end > s.start AND t.end <= s.end)
\* OR (t.start <= s.start AND t.end >= s.end)
ThreeClauseOverlap(t, s) ==
    \/ t.start_time >= s.start_time /\ t.start_time < s.end_time
    \/ t.end_time > s.start_time /\ t.end_time <= s.end_time
    \/ t.start_time <= s.start_time /\ t.end_time >= s.end_time

\* timeConflictQuery: rows (ae, asch) of the join that satisfy the WHERE clause
TimeConflictQuery(enr, sid, target) ==
    {<<ae, asch>> \in enr \X schedules :
        /\ asch.activity_id = ae.activity_id
        /\ ae.student_id = sid
        /\ ae.status = "active"
        /\ activities[ae.activity_id].status = "active"
        /\ asch.is_active
        /\ asch.id \in {x.id : x \in {y \in schedules :
                                 y.activity_id = target /\ y.is_active}}
        /\ \E t \in schedules :
              /\ t.activity_id = target
              /\ t.is_active
              /\ t.day_of_week = asch.day_of_week
              /\ ThreeClauseOverlap(t, asch)}

\* venueConflictQuery: another active activity uses the venue at an overlapping time
VenueConflictQuery(target) ==
    {<<t, asch>> \in schedules \X schedules :
        /\ t.venue_id # 0
        /\ asch.venue_id = t.venue_id
        /\ asch.activity_id # t.activity_id
        /\ asch.day_of_week = t.day_of_week
        /\ asch.is_active
        /\ activities[asch.activity_id].status = "active"
        /\ t.activity_id = target
        /\ t.is_active
        /\ ThreeClauseOverlap(t, asch)}

\* parseInt(activity.quota || activity.max_students || 30)
Quota(activity) ==
    IF activity.quota # 0 THEN activity.quota
    ELSE IF activity.max_students # 0 THEN activity.max_students
    ELSE DefaultQuota

\* a handler without the minimum-grade test
NoMinGrade(activity, grade) == FALSE

\* activity.min_grade && grade_level < activity.min_grade
BelowMinGrade(activity, grade) ==
    activity.min_grade # 0 /\ grade < activity.min_grade

\* activity.max_grade && grade_level > activity.max_grade
AboveMaxGrade(activity, grade) ==
    activity.max_grade # 0 /\ grade > activity.max_grade

\* status IN ('active', 'enrolled')
ExistingEnrollmentQuery(enr, sid, aid) ==
    {e \in enr : e.student_id = sid /\ e.activity_id = aid
                 /\ e.status \in {"active", "enrolled"}}

\* a position counted from the number of waiting entries instead of their maximum
NextPositionByCount(wl, a) ==
    Cardinality({x \in wl : x.activity_id = a /\ x.status = "waiting"}) + 1

\* addToWaitlist: COALESCE(MAX(position), 0) + 1 among the waiting entries
NextPosition(wl, a) ==
    LET waiting == {w.position : w \in {x \in wl :
                        x.activity_id = a /\ x.status = "waiting"}}
    IN  IF waiting = {} THEN 1 ELSE Max(waiting) + 1

-----------------------------------------------------------------------------
(* registerStudent *)

\* lines 19-56: validation, beginTransaction, activity row SELECT ... FOR UPDATE;
\* quotaOverride is the property of the request object set by checkQuotaOverride
RegisterStartOn(p, sid, aid, grade, quotaOverride, log, logNext) ==
    /\ pc[p] = "idle"
    /\ CanInsertEnrollment
    /\ CanInsertWaitlist
    /\ CanLogConflictIn(log)
    /\ IF sid = 0 \/ aid = 0 \/ grade = 0
       THEN /\ response' = Reply("register", "400_validation")
            /\ conn' = [conn EXCEPT ![p] = Release(GetClient(@))]
            /\ UNCHANGED <<pc, req>>
       ELSE IF aid \notin Acts \/ activities[aid].status # "active"
       THEN /\ response' = Reply("register", "404_activity")
            /\ conn' = [conn EXCEPT ![p] =
                           Release(EndTransaction(BeginTransaction(GetClient(@))))]
            /\ UNCHANGED <<pc, req>>
       ELSE /\ ~ ActivityLocked(aid)
            /\ ~ CancelInActivity(aid)
            /\ conn' = [conn EXCEPT ![p] = BeginTransaction(GetClient(@))]
            /\ pc' = [pc EXCEPT ![p] = "reg_locked"]
            /\ req' = [req EXCEPT ![p] =
                         [op |-> "register", student |-> sid, activity |-> aid,
                          grade |-> grade, eid |-> 0,
                          count |-> ActiveCount(enrollments, aid),
                          promoted |-> 0, quotaOverride |-> quotaOverride]]
            /\ UNCHANGED response
    /\ logNext = log
    /\ UNCHANGED <<activities, schedules, enrollments, waitlist, nextEid,
                   nextWid, tx>>

\* registerStudent entered on the current enrollment_conflicts table
RegisterStartWith(p, sid, aid, grade, quotaOverride) ==
    RegisterStartOn(p, sid, aid, grade, quotaOverride, conflicts, conflicts')

\* POST /enroll: the request reaches registerStudent without the override property
RegisterStart(p, sid, aid, grade) == RegisterStartWith(p, sid, aid, grade, FALSE)

\* the outcome of lines 58-283 for a request that holds the activity lock
RegisterOutcome(r) ==
    LET activity == activities[r.activity]
        quota == Quota(activity)
    IN  IF activity.window = "not_started" THEN "400_not_started"
        ELSE IF activity.window = "ended" THEN "400_ended"
        ELSE IF ExistingEnrollmentQuery(enrollments, r.student, r.activity) # {}
             THEN "400_already_enrolled"
        ELSE IF BelowMinGrade(activity, r.grade) \/ AboveMaxGrade(activity, r.grade)
             THEN "400_grade_restriction"
        ELSE IF TimeConflictQuery(enrollments, r.student, r.activity) # {}
             THEN "409_time_overlap"
        ELSE IF r.count >= quota
             THEN IF UniqueWaitlist(waitlist, r.student, r.activity)
                  THEN "200_waitlisted" ELSE "500_error"
        ELSE IF UniqueEnrollment(enrollments, r.student, r.activity)
             THEN "201_enrolled" ELSE "500_error"

\* lines 58-297 for the outcome code: the insert, commit or rollback, the log
\* row, release; log and logNext are enrollment_conflicts before and after
RegisterFinishEffect(p, code, log, logNext) ==
    /\ pc[p] = "reg_locked"
    /\ LET r == req[p]
           position == NextPosition(waitlist, r.activity)
           warn == code \in {"200_waitlisted", "201_enrolled", "500_error"}
                   /\ VenueConflictQuery(r.activity) # {}
       IN  /\ enrollments' =
                 IF code = "201_enrolled"
                 THEN enrollments \cup
                      {EnrollmentRow(nextEid, r.student, r.activity, "active", "none")}
                 ELSE enrollments
           /\ nextEid' = IF code = "201_enrolled" THEN nextEid + 1 ELSE nextEid
           /\ waitlist' =
                 IF code = "200_waitlisted"
                 THEN waitlist \cup
                      {WaitlistRow(nextWid, r.student, r.activity, position)}
                 ELSE waitlist
           /\ nextWid' = IF code = "200_waitlisted" THEN nextWid + 1 ELSE nextWid
           /\ response' =
                 [Reply("register", code) EXCEPT
                    !.position = IF code = "200_waitlisted" THEN position ELSE 0,
                    !.venue_warning = warn]
           /\ logNext =
                 IF code = "400_grade_restriction"
                 THEN LogEnrollmentConflict(log, "grade_restriction")
                 ELSE IF code = "409_time_overlap"
                 THEN LogEnrollmentConflict(log, "time_overlap")
                 ELSE IF code = "200_waitlisted"
                 THEN LogEnrollmentConflict(log, "quota_full")
                 ELSE log
    /\ conn' = [conn EXCEPT ![p] = Release(EndTransaction(@))]
    /\ pc' = [pc EXCEPT ![p] = "idle"]
    /\ req' = [req EXCEPT ![p] = NoReq]
    /\ UNCHANGED <<activities, schedules, tx>>

\* a handler that turns away a student who has a grade_restriction row in
\* enrollment_conflicts
RegisterFinishConsultingLog(p, log, logNext) ==
    RegisterFinishEffect(p,
        IF log["grade_restriction"] > 0 THEN "400_grade_restriction"
        ELSE RegisterOutcome(req[p]), log, logNext)

\* lines 58-297: the checks decide the outcome from the tables they query
RegisterFinishOn(p, log, logNext) ==
    RegisterFinishEffect(p, RegisterOutcome(req[p]), log, logNext)

\* lines 58-297 on the current enrollment_conflicts table
RegisterFinish(p) == RegisterFinishOn(p, conflicts, conflicts')

\* the outcomes after which registerStudent writes a log row: logAudit after
\* the enrollment commit, logEnrollmentConflict after the waitlist commit or
\* after the rollback of a rejection
LoggedOutcomes ==
    {"201_enrolled", "200_waitlisted", "400_grade_restriction", "409_time_overlap"}

\* lines 58-297 when that log INSERT throws: the tables are as the commit or
\* the rollback left them, the catch block rolls back nothing and answers 500
RegisterLogError(p) ==
    /\ pc[p] = "reg_locked"
    /\ RegisterOutcome(req[p]) \in LoggedOutcomes
    /\ LET r == req[p]
           code == RegisterOutcome(r)
       IN  /\ enrollments' =
                 IF code = "201_enrolled"
                 THEN enrollments \cup
                      {EnrollmentRow(nextEid, r.student, r.activity, "active", "none")}
                 ELSE enrollments
           /\ nextEid' = IF code = "201_enrolled" THEN nextEid + 1 ELSE nextEid
           /\ waitlist' =
                 IF code = "200_waitlisted"
                 THEN waitlist \cup
                      {WaitlistRow(nextWid, r.student, r.activity,
                                   NextPosition(waitlist, r.activity))}
                 ELSE waitlist
           /\ nextWid' = IF code = "200_waitlisted" THEN nextWid + 1 ELSE nextWid
    /\ response' = Reply("register", "500_error")
    /\ conn' = [conn EXCEPT ![p] = Release(EndTransaction(EndTransaction(@)))]
    /\ pc' = [pc EXCEPT ![p] = "idle"]
    /\ req' = [req EXCEPT ![p] = NoReq]
    /\ UNCHANGED <<conflicts, activities, schedules, tx>>

-----------------------------------------------------------------------------
(* cancelEnrollment and promoteFromWaitlist *)

Waiting(wl, a) == {w \in wl : w.activity_id = a /\ w.status = "waiting"}

\* ORDER BY position ASC alone
BeforeByPosition(w, v) == w.position < v.position

\* ORDER BY priority DESC, position ASC: w sorts strictly before v
Before(w, v) ==
    \/ w.priority > v.priority
    \/ w.priority = v.priority /\ w.position < v.position

\* waitlistQuery: ... WHERE status = 'waiting' ORDER BY ... LIMIT 1
\* (the rows that can be the single row returned; rows that tie are in no
\* specified order)
WaitlistQuery(wl, a) ==
    {w \in Waiting(wl, a) : ~ \E v \in Waiting(wl, a) : Before(v, w)}

\* a promotion loop over every waiting entry
PromoteAllWaiting(wl, a) == {Waiting(wl, a)}

\* promoteFromWaitlist: the sets of entries one call can promote: none when
\* the query returns no row, else waitlistResult.rows[0]
PromoteFromWaitlist(wl, a) ==
    IF WaitlistQuery(wl, a) = {} THEN {{}}
    ELSE {{w} : w \in WaitlistQuery(wl, a)}

\* INSERT ... VALUES (?, ?, ?, 'active', 'Promoted from waitlist')
PromotedRows(targets, a, base) ==
    {EnrollmentRow(base + Cardinality({v \in targets : v.id < w.id}),
                   w.student_id, a, "active", "promoted") : w \in targets}

\* the enrollment table as the transaction of worker p sees and will commit it
TxEnrollments(p) ==
    {IF tx[p].withdrawn /\ e.id = req[p].eid
     THEN [e EXCEPT !.status = "withdrawn", !.cancelled_at = TRUE]
     ELSE e : e \in enrollments} \cup tx[p].newEnr

\* the waitlist table as the transaction of worker p sees and will commit it
TxWaitlist(p) ==
    {IF w.id \in tx[p].promotedWl THEN [w EXCEPT !.status = "promoted"] ELSE w :
        w \in waitlist}

\* a commit that loses the waitlist update
CommitEnrollmentsOnly(p) == [enr |-> TxEnrollments(p), wl |-> waitlist]

\* a catch block without rollback: the connection is released with its
\* writes applied
NoRollback(p) == [enr |-> TxEnrollments(p), wl |-> TxWaitlist(p)]

\* connection.commit(): the buffered writes become the committed rows
Commit(p) == [enr |-> TxEnrollments(p), wl |-> TxWaitlist(p)]

\* connection.rollback(): the buffered writes are discarded
Rollback(p) == [enr |-> enrollments, wl |-> waitlist]

\* lines 304-339: beginTransaction, SELECT ... FOR UPDATE, UPDATE ... 'withdrawn'
CancelStartOn(p, eid, sid, log, logNext) ==
    /\ pc[p] = "idle"
    /\ CanInsertEnrollment
    /\ LET rows == {e \in enrollments :
                      e.id = eid /\ e.student_id = sid /\ e.status = "active"}
       IN  IF rows = {}
           THEN /\ ~ RowLockedByCancel(eid)
                /\ response' = Reply("cancel", "404_enrollment")
                /\ conn' = [conn EXCEPT ![p] =
                               Release(EndTransaction(BeginTransaction(GetClient(@))))]
                /\ UNCHANGED <<pc, req, tx>>
           ELSE LET enrollment == CHOOSE e \in rows : TRUE
                IN  /\ ~ EnrollmentRowLocked(enrollment)
                    /\ pc' = [pc EXCEPT ![p] = "cancel_updated"]
                    /\ req' = [req EXCEPT ![p] =
                                 [op |-> "cancel", student |-> sid,
                                  activity |-> enrollment.activity_id,
                                  grade |-> 0, eid |-> eid, count |-> 0,
                                  promoted |-> 0, quotaOverride |-> FALSE]]
                    /\ tx' = [tx EXCEPT ![p] = [NoTx EXCEPT !.withdrawn = TRUE]]
                    /\ conn' = [conn EXCEPT ![p] = BeginTransaction(GetClient(@))]
                    /\ UNCHANGED response
    /\ logNext = log
    /\ UNCHANGED <<activities, schedules, enrollments, waitlist, nextEid, nextWid>>

\* cancelEnrollment entered on the current enrollment_conflicts table
CancelStart(p, eid, sid) == CancelStartOn(p, eid, sid, conflicts, conflicts')

\* the catch block: rollback, 500, release
CancelAbort(p) ==
    /\ enrollments' = Rollback(p).enr
    /\ waitlist' = Rollback(p).wl
    /\ response' = Reply("cancel", "500_error")
    /\ conn' = [conn EXCEPT ![p] = Release(EndTransaction(@))]
    /\ pc' = [pc EXCEPT ![p] = "idle"]
    /\ req' = [req EXCEPT ![p] = NoReq]
    /\ tx' = [tx EXCEPT ![p] = NoTx]

\* promoteFromWaitlist lines 395-422: SELECT ... FOR UPDATE, INSERT enrollment
CancelPromoteSelectOn(p, log, logNext) ==
    /\ pc[p] = "cancel_updated"
    /\ ~ WaitlistLocked(req[p].activity)
    /\ \E targets \in PromoteFromWaitlist(waitlist, req[p].activity) :
          IF targets = {}
          THEN /\ pc' = [pc EXCEPT ![p] = "cancel_ready"]
               /\ tx' = [tx EXCEPT ![p].wlLock = req[p].activity]
               /\ UNCHANGED <<enrollments, waitlist, nextEid, req, response, conn>>
          ELSE IF \A w \in targets :
                     UniqueEnrollment(TxEnrollments(p), w.student_id, req[p].activity)
               THEN /\ pc' = [pc EXCEPT ![p] = "cancel_inserted"]
                    /\ tx' = [tx EXCEPT
                          ![p].wlLock = req[p].activity,
                          ![p].selected = {w.id : w \in targets},
                          ![p].newEnr = PromotedRows(targets, req[p].activity, nextEid)]
                    /\ nextEid' = nextEid + Cardinality(targets)
                    /\ UNCHANGED <<enrollments, waitlist, req, response, conn>>
               ELSE /\ CancelAbort(p)
                    /\ UNCHANGED nextEid
    /\ logNext = log
    /\ UNCHANGED <<activities, schedules, nextWid>>

\* promoteFromWaitlist, first half, on the current enrollment_conflicts table
CancelPromoteSelect(p) == CancelPromoteSelectOn(p, conflicts, conflicts')

\* promoteFromWaitlist lines 424-437: UPDATE activity_waitlist SET status = 'promoted'
CancelPromoteMarkOn(p, log, logNext) ==
    /\ pc[p] = "cancel_inserted"
    /\ tx' = [tx EXCEPT ![p].promotedWl = tx[p].selected]
    /\ pc' = [pc EXCEPT ![p] = "cancel_ready"]
    /\ logNext = log
    /\ UNCHANGED <<activities, schedules, enrollments, waitlist, nextEid, nextWid,
                   req, response, conn>>

\* promoteFromWaitlist, second half, on the current enrollment_conflicts table
CancelPromoteMark(p) == CancelPromoteMarkOn(p, conflicts, conflicts')

\* line 344: connection.commit() (promoted is the value promoteFromWaitlist
\* returned)
CancelCommitOn(p, log, logNext) ==
    /\ pc[p] = "cancel_ready"
    /\ enrollments' = Commit(p).enr
    /\ waitlist' = Commit(p).wl
    /\ pc' = [pc EXCEPT ![p] = "cancel_committed"]
    /\ conn' = [conn EXCEPT ![p] = EndTransaction(@)]
    /\ req' = [req EXCEPT ![p].promoted =
                  IF tx[p].newEnr = {} THEN 0
                  ELSE Max({e.student_id : e \in tx[p].newEnr})]
    /\ tx' = [tx EXCEPT ![p] = NoTx]
    /\ logNext = log
    /\ UNCHANGED <<activities, schedules, nextEid, nextWid, response>>

\* the commit on the current enrollment_conflicts table
CancelCommit(p) == CancelCommitOn(p, conflicts, conflicts')

\* lines 346-352: logAudit, res.json, release
CancelRespondOn(p, log, logNext) ==
    /\ pc[p] = "cancel_committed"
    /\ response' = [Reply("cancel", "200_cancelled")
                      EXCEPT !.promoted = req[p].promoted]
    /\ conn' = [conn EXCEPT ![p] = Release(@)]
    /\ pc' = [pc EXCEPT ![p] = "idle"]
    /\ req' = [req EXCEPT ![p] = NoReq]
    /\ logNext = log
    /\ UNCHANGED <<activities, schedules, enrollments, waitlist, nextEid,
                   nextWid, tx>>

\* the answer on the current enrollment_conflicts table
CancelRespond(p) == CancelRespondOn(p, conflicts, conflicts')

\* logAudit throws after the commit: the catch block's rollback has nothing
\* to undo, the answer is 500
CancelAuditError(p) ==
    /\ pc[p] = "cancel_committed"
    /\ response' = Reply("cancel", "500_error")
    /\ conn' = [conn EXCEPT ![p] = Release(EndTransaction(@))]
    /\ pc' = [pc EXCEPT ![p] = "idle"]
    /\ req' = [req EXCEPT ![p] = NoReq]
    /\ UNCHANGED <<conflicts, activities, schedules, enrollments, waitlist, nextEid,
                   nextWid, tx>>

\* a statement of the transaction or the commit throws (connection loss,
\* lock timeout): lines 354-362
CancelDbError(p) ==
    /\ InCancel(p)
    /\ CancelAbort(p)
    /\ UNCHANGED <<conflicts, activities, schedules, nextEid, nextWid>>

-----------------------------------------------------------------------------
(* activityController.js: statements run in autocommit mode on the pool *)

\* enrollStudent lines 316-352: validation, capacity check
EnrollStudentCheck(p, sid, aid) ==
    /\ pc[p] = "idle"
    /\ CanInsertEnrollment
    /\ IF sid = 0 \/ aid = 0
       THEN /\ response' = Reply("enroll", "400_validation")
            /\ UNCHANGED <<pc, req>>
       ELSE IF ~ ActivityExists(aid)
       THEN /\ response' = Reply("enroll", "404_activity")
            /\ UNCHANGED <<pc, req>>
       ELSE IF ActiveCount(enrollments, aid) >= activities[aid].max_students
       THEN /\ response' = Reply("enroll", "400_full")
            /\ UNCHANGED <<pc, req>>
       ELSE /\ pc' = [pc EXCEPT ![p] = "enroll_counted"]
            /\ req' = [req EXCEPT ![p] =
                         [op |-> "enroll", student |-> sid, activity |-> aid,
                          grade |-> 0, eid |-> 0, count |-> 0, promoted |-> 0,
                          quotaOverride |-> FALSE]]
            /\ UNCHANGED response
    /\ UNCHANGED <<conn, conflicts, activities, schedules, enrollments, waitlist, nextEid,
                   nextWid, tx>>

\* enrollStudent lines 354-365: SELECT * ... WHERE student_id = ? AND activity_id = ?
EnrollStudentExisting(p) ==
    /\ pc[p] = "enroll_counted"
    /\ IF \E e \in enrollments :
             e.student_id = req[p].student /\ e.activity_id = req[p].activity
       THEN /\ response' = Reply("enroll", "400_already_enrolled")
            /\ pc' = [pc EXCEPT ![p] = "idle"]
            /\ req' = [req EXCEPT ![p] = NoReq]
       ELSE /\ pc' = [pc EXCEPT ![p] = "enroll_checked"]
            /\ UNCHANGED <<req, response>>
    /\ UNCHANGED <<conn, conflicts, activities, schedules, enrollments, waitlist, nextEid,
                   nextWid, tx>>

\* enrollStudent lines 367-399: INSERT; a duplicate key (ER_DUP_ENTRY, not
\* the '23505' the catch block tests) or a missing parent row of the foreign
\* key is answered with 500
EnrollStudentInsert(p) ==
    /\ pc[p] = "enroll_checked"
    /\ ~ ActivityLocked(req[p].activity)
    /\ ~ PendingInsert(req[p].student, req[p].activity)
    /\ LET r == req[p]
       IN  IF UniqueEnrollment(enrollments, r.student, r.activity)
              /\ ActivityExists(r.activity)
           THEN /\ enrollments' = enrollments \cup
                      {EnrollmentRow(nextEid, r.student, r.activity, "active", "none")}
                /\ nextEid' = nextEid + 1
                /\ response' = Reply("enroll", "201_enrolled")
           ELSE /\ response' = Reply("enroll", "500_error")
                /\ UNCHANGED <<enrollments, nextEid>>
    /\ pc' = [pc EXCEPT ![p] = "idle"]
    /\ req' = [req EXCEPT ![p] = NoReq]
    /\ UNCHANGED <<conn, conflicts, activities, schedules, waitlist, nextWid, tx>>

\* withdrawEnrollment: UPDATE ... SET status = 'withdrawn' WHERE id = ?
WithdrawEnrollment(eid) ==
    /\ IF \E e \in enrollments : e.id = eid
       THEN /\ \A e \in enrollments : e.id = eid => ~ EnrollmentRowLocked(e)
            /\ enrollments' = SetStatus(enrollments, eid, "withdrawn")
            /\ response' = Reply("withdraw", "200_withdrawn")
       ELSE /\ response' = Reply("withdraw", "404_enrollment")
            /\ UNCHANGED enrollments
    /\ UNCHANGED <<conn, conflicts, activities, schedules, waitlist, nextEid, nextWid, pc, req, tx>>

\* updateEnrollmentStatus: UPDATE ... SET status = ? WHERE id = ?
UpdateEnrollmentStatus(eid, status) ==
    /\ IF status = "none"
       THEN /\ response' = Reply("status", "400_status_required")
            /\ UNCHANGED enrollments
       ELSE IF status \notin EnrollmentStatuses
       THEN /\ response' = Reply("status", "400_invalid_status")
            /\ UNCHANGED enrollments
       ELSE IF \E e \in enrollments : e.id = eid
       THEN /\ \A e \in enrollments : e.id = eid => ~ EnrollmentRowLocked(e)
            /\ enrollments' = SetStatus(enrollments, eid, status)
            /\ response' = Reply("status", "200_updated")
       ELSE /\ response' = Reply("status", "404_enrollment")
            /\ UNCHANGED enrollments
    /\ UNCHANGED <<conn, conflicts, activities, schedules, waitlist, nextEid, nextWid, pc, req, tx>>

\* deleteEnrollment: SELECT id ...; DELETE FROM activity_enrollments WHERE id = ?
DeleteEnrollment(eid) ==
    /\ IF \E e \in enrollments : e.id = eid
       THEN /\ \A e \in enrollments : e.id = eid => ~ EnrollmentRowLocked(e)
            /\ enrollments' = {e \in enrollments : e.id # eid}
            /\ response' = Reply("delete", "200_deleted")
       ELSE /\ response' = Reply("delete", "404_enrollment")
            /\ UNCHANGED enrollments
    /\ UNCHANGED <<conn, conflicts, activities, schedules, waitlist, nextEid, nextWid, pc, req, tx>>

\* addPerformanceRemark: UPDATE ... SET performance_remarks = ? WHERE id = ?
AddPerformanceRemark(eid, remark) ==
    /\ IF remark = "none"
       THEN /\ response' = Reply("remark", "400_remark_required")
            /\ UNCHANGED enrollments
       ELSE IF \E e \in enrollments : e.id = eid
       THEN /\ \A e \in enrollments : e.id = eid => ~ EnrollmentRowLocked(e)
            /\ enrollments' = {IF e.id = eid
                                 THEN [e EXCEPT !.performance_remarks = remark]
                                 ELSE e : e \in enrollments}
            /\ response' = Reply("remark", "200_remark_added")
       ELSE /\ response' = Reply("remark", "404_enrollment")
            /\ UNCHANGED enrollments
    /\ UNCHANGED <<conn, conflicts, activities, schedules, waitlist, nextEid, nextWid, pc, req, tx>>

\* deleteActivity: SELECT id ...; DELETE FROM activities WHERE id = ?; the
\* foreign keys of activity_schedules, activity_enrollments and
\* activity_waitlist are declared ON DELETE CASCADE, and the DELETE waits for
\* the row locks a transaction holds on the activity and its child rows
DeleteActivity(aid) ==
    /\ IF ActivityExists(aid)
       THEN /\ ~ ActivityLocked(aid)
            /\ ~ CancelInActivity(aid)
            /\ ~ WaitlistLocked(aid)
            /\ activities' = [activities EXCEPT ![aid].status = "deleted"]
            /\ schedules' = {sc \in schedules : sc.activity_id # aid}
            /\ enrollments' = {e \in enrollments : e.activity_id # aid}
            /\ waitlist' = {w \in waitlist : w.activity_id # aid}
            /\ response' = Reply("delete_activity", "200_deleted")
       ELSE /\ response' = Reply("delete_activity", "404_activity")
            /\ UNCHANGED <<activities, schedules, enrollments, waitlist>>
    /\ UNCHANGED <<conn, conflicts, nextEid, nextWid, pc, req, tx>>

\* activity_waitlist.priority: no handler writes the column; an administrator
\* sets it in the database
SetWaitlistPriority(wid, priority) ==
    /\ \E w \in waitlist :
          /\ w.id = wid
          /\ w.status = "waiting"
          /\ ~ WaitlistLocked(w.activity_id)
          /\ waitlist' = (waitlist \ {w}) \cup {[w EXCEPT !.priority = priority]}
    /\ response' = response
    /\ UNCHANGED <<conn, conflicts, activities, schedules, enrollments, nextEid, nextWid, pc, req, tx>>

-----------------------------------------------------------------------------
(* The system *)

-----------------------------------------------------------------------------
(* middleware/rbac.js and the routes that mount it *)

\* req.user?.id || req.body.user_id: 0 stands for a request that carries neither
UserIds == 0..NUsers

\* user_roles: the unexpired role rows of each user, in the order the SELECT
\* returns them (user 1 is an administrator, user 2 a student, others have none)
user_roles ==
    [u \in 1..NUsers |->
        IF u = 1 THEN <<"admin">> ELSE IF u = 2 THEN <<"student">> ELSE <<>>]

\* requireRole(allowedRoles): the status it answers, or "next"
RequireRole(allowedRoles, userId) ==
    IF userId = 0 THEN "401_authentication"
    ELSE IF Len(user_roles[userId]) = 0 THEN "403_no_roles"
    ELSE IF ~ \E i \in 1..Len(user_roles[userId]) : user_roles[userId][i] \in allowedRoles
         THEN "403_insufficient"
    ELSE "next"

\* req.primaryRole = rolesResult.rows[0].role
PrimaryRole(userId) == user_roles[userId][1]

\* checkQuotaOverride: the value of req.quotaOverride it leaves on the request
CheckQuotaOverride(primaryRole, override_quota) ==
    primaryRole = "admin" /\ override_quota = TRUE

\* POST /admin/enroll-override: requireAdmin, checkQuotaOverride, registerStudent
AdminEnrollOverride(p, userId, sid, aid, grade, override_quota) ==
    /\ pc[p] = "idle"
    /\ IF RequireRole({"admin"}, userId) # "next"
       THEN /\ response' = Reply("admin_override", RequireRole({"admin"}, userId))
            /\ UNCHANGED <<conn, conflicts, activities, schedules, enrollments, waitlist,
                           nextEid, nextWid, pc, req, tx>>
       ELSE RegisterStartWith(p, sid, aid, grade,
                              CheckQuotaOverride(PrimaryRole(userId), override_quota))

Eids == 1..MaxEid
Wids == 1..MaxWid
GradeInputs == {1, 2, 3}

Init ==
    /\ activities = [a \in Acts |-> ActivityRow(a)]
    /\ schedules = {ScheduleRow(a) : a \in Acts}
    /\ enrollments = {}
    /\ waitlist = {}
    /\ nextEid = 1
    /\ nextWid = 1
    /\ pc = [p \in Procs |-> "idle"]
    /\ req = [p \in Procs |-> NoReq]
    /\ tx = [p \in Procs |-> NoTx]
    /\ response = NoResponse
    /\ conflicts = NoConflicts
    /\ conn = [p \in Procs |-> "pooled"]

(* Spec: registerStudent and cancelEnrollment on the first activity, with   *)
(* the waitlist priorities set by an administrator                         *)

Next ==
    \/ \E p \in Procs, sid \in Students : RegisterStart(p, sid, 1, 2)
    \/ \E p \in Procs : RegisterFinish(p)
    \/ \E p \in Procs, eid \in Eids, sid \in Students : CancelStart(p, eid, sid)
    \/ \E p \in Procs : CancelPromoteSelect(p)
    \/ \E p \in Procs : CancelPromoteMark(p)
    \/ \E p \in Procs : CancelCommit(p)
    \/ \E p \in Procs : CancelRespond(p)
    \/ \E p \in Procs : CancelAuditError(p)
    \/ \E p \in Procs : CancelDbError(p)
    \/ \E wid \in Wids, priority \in Priorities : SetWaitlistPriority(wid, priority)

Spec == Init /\ [][Next]_vars

(* SpecSeats: registerStudent and cancelEnrollment on the first activity,   *)
(* whose capacity is 1..NActs, with withdrawEnrollment freeing seats        *)
(* without a promotion                                                      *)

InitSeats ==
    /\ \E q \in Acts :
          activities = [a \in Acts |->
                          [ActivityRow(a) EXCEPT !.quota = q, !.max_students = q]]
    /\ schedules = {ScheduleRow(a) : a \in Acts}
    /\ enrollments = {}
    /\ waitlist = {}
    /\ nextEid = 1
    /\ nextWid = 1
    /\ pc = [p \in Procs |-> "idle"]
    /\ req = [p \in Procs |-> NoReq]
    /\ tx = [p \in Procs |-> NoTx]
    /\ response = NoResponse
    /\ conflicts = NoConflicts
    /\ conn = [p \in Procs |-> "pooled"]

NextSeats ==
    \/ \E p \in Procs, sid \in Students : RegisterStart(p, sid, 1, 2)
    \/ \E p \in Procs : RegisterFinish(p)
    \/ \E p \in Procs, eid \in Eids, sid \in Students : CancelStart(p, eid, sid)
    \/ \E p \in Procs : CancelPromoteSelect(p)
    \/ \E p \in Procs : CancelPromoteMark(p)
    \/ \E p \in Procs : CancelCommit(p)
    \/ \E p \in Procs : CancelRespond(p)
    \/ \E eid \in Eids : WithdrawEnrollment(eid)

SpecSeats == InitSeats /\ [][NextSeats]_vars

(* SpecRegister: concurrent registerStudent requests only, started from a  *)
(* table in which one student (the last one) already holds active or       *)
(* approved enrollments                                                    *)

\* (the seeded rows carry ids outside the range the bounded counter issues)
SeedTable(f) ==
    {EnrollmentRow(MaxEid + a, NStudents, a, f[a], "none") :
        a \in {b \in Acts : f[b] # "none"}}

InitRegister ==
    /\ activities = [a \in Acts |-> ActivityRow(a)]
    /\ schedules = {ScheduleRow(a) : a \in Acts}
    /\ \E f \in [Acts -> {"none", "active", "approved"}] : enrollments = SeedTable(f)
    /\ waitlist = {}
    /\ nextEid = 1
    /\ nextWid = 1
    /\ pc = [p \in Procs |-> "idle"]
    /\ req = [p \in Procs |-> NoReq]
    /\ tx = [p \in Procs |-> NoTx]
    /\ response = NoResponse
    /\ conflicts = NoConflicts
    /\ conn = [p \in Procs |-> "pooled"]

NextRegister ==
    \/ \E p \in Procs, sid \in Students, aid \in Acts, grade \in GradeInputs :
          RegisterStart(p, sid, aid, grade)
    \/ \E p \in Procs : RegisterFinish(p)

SpecRegister == InitRegister /\ [][NextRegister]_vars

(* SpecAll: every handler that writes the enrollment table *)

NextAll ==
    \/ \E p \in Procs, sid \in AllStudents, aid \in Acts : RegisterStart(p, sid, aid, 2)
    \/ \E p \in Procs : RegisterFinish(p)
    \/ \E p \in Procs, eid \in Eids, sid \in AllStudents : CancelStart(p, eid, sid)
    \/ \E p \in Procs : CancelPromoteSelect(p)
    \/ \E p \in Procs : CancelPromoteMark(p)
    \/ \E p \in Procs : CancelCommit(p)
    \/ \E p \in Procs : CancelRespond(p)
    \/ \E p \in Procs, sid \in AllStudents, aid \in Acts : EnrollStudentCheck(p, sid, aid)
    \/ \E p \in Procs : EnrollStudentExisting(p)
    \/ \E p \in Procs : EnrollStudentInsert(p)
    \/ \E eid \in Eids : WithdrawEnrollment(eid)
    \/ \E eid \in Eids, status \in {"active", "approved", "rejected"} :
          UpdateEnrollmentStatus(eid, status)
    \/ \E eid \in Eids : DeleteEnrollment(eid)

SpecAll == Init /\ [][NextAll]_vars

(* SpecRows: every handler that writes the enrollment table, on the first   *)
(* activity, with addPerformanceRemark and deleteActivity                   *)

RemarkInputs == {"none", "good"}

NextRows ==
    \/ \E p \in Procs, sid \in AllStudents : RegisterStart(p, sid, 1, 2)
    \/ \E p \in Procs : RegisterFinish(p)
    \/ \E p \in Procs, eid \in Eids, sid \in AllStudents : CancelStart(p, eid, sid)
    \/ \E p \in Procs : CancelPromoteSelect(p)
    \/ \E p \in Procs : CancelPromoteMark(p)
    \/ \E p \in Procs : CancelCommit(p)
    \/ \E p \in Procs : CancelRespond(p)
    \/ \E p \in Procs, sid \in AllStudents : EnrollStudentCheck(p, sid, 1)
    \/ \E p \in Procs : EnrollStudentExisting(p)
    \/ \E p \in Procs : EnrollStudentInsert(p)
    \/ \E eid \in Eids : WithdrawEnrollment(eid)
    \/ \E eid \in Eids : UpdateEnrollmentStatus(eid, "active")
    \/ \E eid \in Eids, remark \in RemarkInputs : AddPerformanceRemark(eid, remark)
    \/ \E eid \in Eids : DeleteEnrollment(eid)
    \/ \E aid \in Acts : DeleteActivity(aid)

SpecRows == Init /\ [][NextRows]_vars

(* SpecQuota: concurrent registerStudent requests, the first activity       *)
(* configured with quota 0 and a max_students of 0..NActs                   *)

InitQuota ==
    /\ \E m \in 0..NActs :
          activities = [a \in Acts |->
                          IF a = 1
                          THEN [ActivityRow(a) EXCEPT !.quota = 0, !.max_students = m]
                          ELSE ActivityRow(a)]
    /\ schedules = {ScheduleRow(a) : a \in Acts}
    /\ enrollments = {}
    /\ waitlist = {}
    /\ nextEid = 1
    /\ nextWid = 1
    /\ pc = [p \in Procs |-> "idle"]
    /\ req = [p \in Procs |-> NoReq]
    /\ tx = [p \in Procs |-> NoTx]
    /\ response = NoResponse
    /\ conflicts = NoConflicts
    /\ conn = [p \in Procs |-> "pooled"]

NextQuota ==
    \/ \E p \in Procs, sid \in AllStudents, aid \in Acts, grade \in {1, 2} :
          RegisterStart(p, sid, aid, grade)
    \/ \E p \in Procs : RegisterFinish(p)

SpecQuota == InitQuota /\ [][NextQuota]_vars

(* SpecEnroll: concurrent enrollStudent requests only *)

NextEnroll ==
    \/ \E p \in Procs, sid \in 0..NAllStudents, aid \in 0..(NActs + 1) :
          EnrollStudentCheck(p, sid, aid)
    \/ \E p \in Procs : EnrollStudentExisting(p)
    \/ \E p \in Procs : EnrollStudentInsert(p)

SpecEnroll == Init /\ [][NextEnroll]_vars

(* SpecStatus: enrollStudent and updateEnrollmentStatus, the request body   *)
(* carrying a valid status, an unrecognized one or none                     *)

StatusInputs == EnrollmentStatuses \cup {"none", "pending"}

NextStatus ==
    \/ \E p \in Procs, sid \in AllStudents, aid \in Acts : EnrollStudentCheck(p, sid, aid)
    \/ \E p \in Procs : EnrollStudentExisting(p)
    \/ \E p \in Procs : EnrollStudentInsert(p)
    \/ \E eid \in Eids, status \in StatusInputs : UpdateEnrollmentStatus(eid, status)

SpecStatus == Init /\ [][NextStatus]_vars

(* SpecLog: registerStudent and cancelEnrollment on the first activity, the *)
(* INSERT into audit_log or enrollment_conflicts succeeding or throwing     *)

NextLog ==
    \/ \E p \in Procs, sid \in Students, grade \in {2, 3} : RegisterStart(p, sid, 1, grade)
    \/ \E p \in Procs : RegisterFinish(p)
    \/ \E p \in Procs : RegisterLogError(p)
    \/ \E p \in Procs, eid \in Eids, sid \in Students : CancelStart(p, eid, sid)
    \/ \E p \in Procs : CancelPromoteSelect(p)
    \/ \E p \in Procs : CancelPromoteMark(p)
    \/ \E p \in Procs : CancelCommit(p)
    \/ \E p \in Procs : CancelRespond(p)
    \/ \E p \in Procs : CancelAuditError(p)

SpecLog == Init /\ [][NextLog]_vars

(* SpecPaths: every path through registerStudent and cancelEnrollment: the *)
(* second activity inactive or outside its registration window, requests   *)
(* with a missing field or for an activity that does not exist, failing    *)
(* statements and failing log writes                                       *)

InitPaths ==
    /\ \E status \in {"active", "inactive"}, window \in {"open", "not_started", "ended"} :
          activities = [a \in Acts |->
                          IF a = NActs
                          THEN [ActivityRow(a) EXCEPT !.status = status, !.window = window]
                          ELSE ActivityRow(a)]
    /\ schedules = {ScheduleRow(a) : a \in Acts}
    /\ enrollments = {}
    /\ waitlist = {}
    /\ nextEid = 1
    /\ nextWid = 1
    /\ pc = [p \in Procs |-> "idle"]
    /\ req = [p \in Procs |-> NoReq]
    /\ tx = [p \in Procs |-> NoTx]
    /\ response = NoResponse
    /\ conflicts = NoConflicts
    /\ conn = [p \in Procs |-> "pooled"]

NextPaths ==
    \/ \E p \in Procs, sid \in 0..NAllStudents, aid \in 1..(NActs + 1), grade \in {1, 2} :
          RegisterStart(p, sid, aid, grade)
    \/ \E p \in Procs : RegisterFinish(p)
    \/ \E p \in Procs : RegisterLogError(p)
    \/ \E p \in Procs, eid \in Eids, sid \in AllStudents : CancelStart(p, eid, sid)
    \/ \E p \in Procs : CancelPromoteSelect(p)
    \/ \E p \in Procs : CancelPromoteMark(p)
    \/ \E p \in Procs : CancelCommit(p)
    \/ \E p \in Procs : CancelRespond(p)
    \/ \E p \in Procs : CancelAuditError(p)
    \/ \E p \in Procs : CancelDbError(p)

SpecPaths == InitPaths /\ [][NextPaths]_vars

(* SpecAdmin: the admin enroll-override route and the plain register route *)
(* on the first activity                                                    *)

NextAdmin ==
    \/ \E p \in Procs, userId \in UserIds, sid \in Students, override_quota \in BOOLEAN :
          AdminEnrollOverride(p, userId, sid, 1, 2, override_quota)
    \/ \E p \in Procs, sid \in Students : RegisterStart(p, sid, 1, 2)
    \/ \E p \in Procs : RegisterFinish(p)

SpecAdmin == Init /\ [][NextAdmin]_vars

(* SpecCoach: requests to the routes of enhancedRoutes.js whose first       *)
(* middleware is requireCoach, and to one route guarded by requireRole      *)

\* instructors: the last user is the instructor of the first activity
instructors == {[id |-> 1, user_id |-> NUsers]}

CoachRoutes ==
    {"attendance_mark", "evaluation_create", "evaluation_publish", "badge_award"}

Routes == CoachRoutes \cup {"evaluations_student"}

\* the middleware returned by requireCoach(): the status it answers, or "next"
RequireCoachMiddleware(userId, activityId) ==
    IF userId = 0 \/ activityId = 0 THEN "400_missing_parameters"
    ELSE IF \E asch \in schedules, i \in instructors :
               /\ asch.instructor_id = i.id
               /\ i.user_id = userId
               /\ asch.activity_id = activityId
         THEN "next"
    ELSE IF \E k \in 1..Len(user_roles[userId]) : user_roles[userId][k] = "admin"
         THEN "next"
    ELSE "403_not_assigned"

\* the value each route registers as its first middleware: the coach routes
\* pass requireCoach itself, not the middleware requireCoach() returns
FirstMiddleware(route) ==
    IF route \in CoachRoutes THEN "requireCoach" ELSE "requireRole"

\* what calling the registered value with (req, res, next) does: requireCoach
\* takes no parameters, builds the middleware and returns it, sending nothing
\* and not calling next
Invoke(middleware, userId, activityId) ==
    IF middleware = "requireCoach" THEN "returned_function"
    ELSE IF middleware = "requireCoach()"
         THEN RequireCoachMiddleware(userId, activityId)
    ELSE RequireRole({"admin", "coach", "student", "parent"}, userId)

\* a request is matched to its route
RouteRequest(p, route, userId, activityId) ==
    /\ pc[p] = "idle"
    /\ pc' = [pc EXCEPT ![p] = "route_matched"]
    /\ req' = [req EXCEPT ![p] =
                 [op |-> route, user |-> userId, activity |-> activityId]]
    /\ UNCHANGED <<conn, conflicts, activities, schedules, enrollments, waitlist,
                   nextEid, nextWid, tx, response>>

\* the router calls the first middleware of the route
RouteDispatch(p) ==
    /\ pc[p] = "route_matched"
    /\ LET result == Invoke(FirstMiddleware(req[p].op), req[p].user, req[p].activity)
       IN  IF result = "returned_function"
           THEN /\ pc' = [pc EXCEPT ![p] = "awaiting_response"]
                /\ UNCHANGED <<req, response>>
           ELSE IF result = "next"
           THEN /\ pc' = [pc EXCEPT ![p] = "next_called"]
                /\ UNCHANGED <<req, response>>
           ELSE /\ response' = Reply(req[p].op, result)
                /\ pc' = [pc EXCEPT ![p] = "idle"]
                /\ req' = [req EXCEPT ![p] = NoReq]
    /\ UNCHANGED <<conn, conflicts, activities, schedules, enrollments, waitlist,
                   nextEid, nextWid, tx>>

\* the handlers after the first middleware answer the request
HandlerRespond(p) ==
    /\ pc[p] = "next_called"
    /\ response' = Reply(req[p].op, "handled")
    /\ pc' = [pc EXCEPT ![p] = "idle"]
    /\ req' = [req EXCEPT ![p] = NoReq]
    /\ UNCHANGED <<conn, conflicts, activities, schedules, enrollments, waitlist,
                   nextEid, nextWid, tx>>

NextCoach ==
    \/ \E p \in Procs, route \in Routes, userId \in UserIds, activityId \in 0..NActs :
          RouteRequest(p, route, userId, activityId)
    \/ \E p \in Procs : RouteDispatch(p)
    \/ \E p \in Procs : HandlerRespond(p)

\* the event loop runs every callback that is ready
SpecCoach ==
    /\ Init
    /\ [][NextCoach]_vars
    /\ \A p \in Procs : WF_vars(RouteDispatch(p)) /\ WF_vars(HandlerRespond(p))

(* SpecOverlap: registerStudent over every pair of schedule intervals *)

Intervals == {iv \in (0..MaxTime) \X (0..MaxTime) : iv[1] < iv[2]}

InitOverlap ==
    /\ activities = [a \in Acts |-> ActivityRow(a)]
    /\ \E d \in [Acts -> Days], iv \in [Acts -> Intervals], act \in [Acts -> BOOLEAN] :
          schedules = {[ScheduleRow(a) EXCEPT !.day_of_week = d[a],
                                              !.start_time = iv[a][1],
                                              !.end_time = iv[a][2],
                                              !.is_active = act[a]] : a \in Acts}
    /\ enrollments = {}
    /\ waitlist = {}
    /\ nextEid = 1
    /\ nextWid = 1
    /\ pc = [p \in Procs |-> "idle"]
    /\ req = [p \in Procs |-> NoReq]
    /\ tx = [p \in Procs |-> NoTx]
    /\ response = NoResponse
    /\ conflicts = NoConflicts
    /\ conn = [p \in Procs |-> "pooled"]

NextOverlap ==
    \/ \E p \in Procs, aid \in Acts : RegisterStart(p, 1, aid, 2)
    \/ \E p \in Procs : RegisterFinish(p)

SpecOverlap == InitOverlap /\ [][NextOverlap]_vars

-----------------------------------------------------------------------------
(* Properties *)

LiveStatuses == {"active", "approved"}

LiveCount(tbl, a) ==
    Cardinality({e \in tbl : e.activity_id = a /\ e.status \in LiveStatuses})

HasLive(s, a) ==
    \E e \in enrollments :
        e.student_id = s /\ e.activity_id = a /\ e.status \in LiveStatuses

\* the standard half-open interval rule
StdOverlap(t, s) == t.start_time < s.end_time /\ s.start_time < t.end_time

SchedulesClash(a, b) ==
    \E t \in schedules, u \in schedules :
        /\ t.activity_id = a /\ u.activity_id = b
        /\ t.is_active /\ u.is_active
        /\ t.day_of_week = u.day_of_week
        /\ StdOverlap(t, u)

HasTimeConflict(s, b) ==
    \E e \in enrollments :
        /\ e.student_id = s /\ e.status \in LiveStatuses
        /\ e.activity_id # b
        /\ activities[e.activity_id].status = "active"
        /\ SchedulesClash(e.activity_id, b)

GradeInRange(a, grade) ==
    activities[a].min_grade <= grade /\ grade <= activities[a].max_grade

RegisterFinishes(p) == pc[p] = "reg_locked" /\ pc'[p] = "idle"

TablesUnchanged == enrollments' = enrollments /\ waitlist' = waitlist

\* C1: under concurrent registerStudent requests, started from a table within
\* capacity, the number of active or approved enrollments of an activity
\* never exceeds its capacity.
C1_CapacityNeverExceeded ==
    \A a \in Acts : LiveCount(enrollments, a) <= activities[a].quota

\* C2: when the N students other than the seeded one, all eligible, have all
\* been served for one activity that had M < N free seats, exactly M of them
\* hold an active enrollment and N - M a waiting entry.
Requesters == Students \ {NStudents}

Served(s, a) ==
    \/ \E e \in enrollments : e.student_id = s /\ e.activity_id = a
    \/ \E w \in waitlist : w.student_id = s /\ w.activity_id = a

SeedLive(a) ==
    Cardinality({e \in enrollments : e.student_id = NStudents /\ e.activity_id = a
                                     /\ e.status = "approved"})

C2_StressOutcome ==
    \A a \in Acts :
        LET M == activities[a].quota - SeedLive(a)
            N == Cardinality(Requesters)
        IN  ( /\ \A p \in Procs : pc[p] = "idle"
              /\ \A s \in Requesters : Served(s, a) /\ ~ HasTimeConflict(s, a)
              /\ ~ \E e \in enrollments : e.student_id = NStudents
                       /\ e.activity_id = a /\ e.status # "approved"
              /\ ~ \E w \in waitlist : w.student_id = NStudents /\ w.activity_id = a
              /\ M >= 0 /\ M < N )
            => /\ Cardinality({e \in enrollments : e.student_id \in Requesters
                      /\ e.activity_id = a /\ e.status = "active"}) = M
               /\ Cardinality({w \in waitlist : w.student_id \in Requesters
                      /\ w.activity_id = a /\ w.status = "waiting"}) = N - M

\* C3: a registration for B by a student with an active or approved
\* enrollment in another activity whose active schedule overlaps B's on the
\* same day is rejected with the time-conflict error and changes no table.
C3_ConflictRejected ==
    [][\A p \in Procs :
          ( /\ RegisterFinishes(p)
            /\ HasTimeConflict(req[p].student, req[p].activity)
            /\ ~ HasLive(req[p].student, req[p].activity)
            /\ GradeInRange(req[p].activity, req[p].grade) )
          => /\ response'.code = "409_time_overlap"
             /\ TablesUnchanged]_vars

\* C4: for schedule intervals with start < end the three-clause condition of
\* the conflict queries is true exactly when start_A < end_B and
\* start_B < end_A, so intervals that only touch do not overlap.
C4_OverlapIsStandard ==
    \A t \in schedules, s \in schedules :
        (t.start_time < t.end_time /\ s.start_time < s.end_time)
        => (ThreeClauseOverlap(t, s) <=> StdOverlap(t, s))

C4_Witness ==
    /\ response.op = "register" /\ response.code = "201_enrolled"
    /\ ~ response.venue_warning
    /\ \E t \in schedules, s \in schedules :
          /\ t.activity_id # s.activity_id
          /\ t.is_active /\ s.is_active
          /\ t.day_of_week = s.day_of_week
          /\ t.end_time = s.start_time

\* C5: registerStudent or enrollStudent for a pair that already has an active
\* or approved enrollment fails with the already-enrolled error and leaves
\* the enrollment and waitlist tables unchanged.
C5_DuplicateRejected ==
    [][\A p \in Procs :
          ( /\ \/ RegisterFinishes(p)
               \/ pc[p] \in {"enroll_counted", "enroll_checked"} /\ pc'[p] = "idle"
            /\ HasLive(req[p].student, req[p].activity) )
          => /\ response'.code = "400_already_enrolled"
             /\ TablesUnchanged]_vars

\* C6: each (student, activity) pair has at most one enrollment row whose
\* status is active or approved.
C6_OneLiveRowPerPair ==
    \A e \in enrollments, f \in enrollments :
        ( /\ e.student_id = f.student_id /\ e.activity_id = f.activity_id
          /\ e.status \in LiveStatuses /\ f.status \in LiveStatuses )
        => e = f

C6_Witness ==
    /\ response.op = "register" /\ response.code = "500_error"
    /\ \E e \in enrollments : e.status = "approved"

\* C7: the entry promoteFromWaitlist selects has the highest priority among
\* the activity's waiting entries and, among those, the lowest position.
C7_PromotesHighestPriorityThenPosition ==
    [][\A p \in Procs :
          (pc[p] = "cancel_updated" /\ pc'[p] = "cancel_inserted")
          => \A w \in waitlist :
                w.id \in tx'[p].selected
                => /\ w.status = "waiting" /\ w.activity_id = req[p].activity
                   /\ \A v \in Waiting(waitlist, req[p].activity) :
                         /\ v.priority <= w.priority
                         /\ v.priority = w.priority => w.position <= v.position]_vars

\* S1, S2, S3 enqueued in that order, S2 with the higher priority: S2 was
\* promoted first, then S1, and S3 still waits
C7_Witness ==
    \E w1 \in waitlist, w2 \in waitlist, w3 \in waitlist :
        /\ w1.position = 1 /\ w2.position = 2 /\ w3.position = 3
        /\ w1.priority = 0 /\ w2.priority > 0 /\ w3.priority = 0
        /\ w1.status = "promoted" /\ w2.status = "promoted" /\ w3.status = "waiting"
        /\ \E e1 \in enrollments, e2 \in enrollments :
              /\ e1.student_id = w1.student_id /\ e1.notes = "promoted"
              /\ e2.student_id = w2.student_id /\ e2.notes = "promoted"
              /\ e2.id < e1.id

PromotedIds(wl) == {w.id : w \in {x \in wl : x.status = "promoted"}}

PromotionRows(tbl) == {e \in tbl : e.notes = "promoted"}

NewlyPromoted == {w \in waitlist' : w.id \in PromotedIds(waitlist') \ PromotedIds(waitlist)}

NewPromotionRows ==
    {e \in enrollments' : e.notes = "promoted"
                          /\ e.id \notin {x.id : x \in PromotionRows(enrollments)}}

C9_AtMostOnePromotion ==
    [][\A p \in Procs :
          /\ (InCancel(p) /\ pc'[p] # "idle")
             => /\ Cardinality(tx'[p].newEnr) <= 1
                /\ Cardinality(tx'[p].selected) <= 1
                /\ (Waiting(waitlist, req[p].activity) = {} /\ pc[p] = "cancel_updated")
                   => tx'[p].newEnr = {} /\ tx'[p].selected = {}
          /\ (pc[p] = "cancel_ready" /\ pc'[p] = "cancel_committed")
             => /\ Cardinality(PromotedIds(waitlist') \ PromotedIds(waitlist)) <= 1
                /\ Cardinality({e.id : e \in enrollments'} \ {e.id : e \in enrollments}) <= 1
                /\ tx[p].selected = {}
                   => /\ waitlist' = waitlist
                      /\ {e.id : e \in enrollments'} = {e.id : e \in enrollments}]_vars

\* a committed cancellation promoted one student although the activity had
\* two free seats and two waiting entries: one seat stays free and one entry
\* still waits
C9_Witness ==
    /\ response.op = "cancel" /\ response.code = "200_cancelled"
    /\ response.promoted # 0
    /\ \E a \in Acts :
          /\ Waiting(waitlist, a) # {}
          /\ LiveCount(enrollments, a) < activities[a].quota
          /\ Cardinality({w \in waitlist : w.activity_id = a /\ w.status = "promoted"}) = 1
          /\ \E e \in enrollments :
                /\ e.activity_id = a /\ e.student_id = response.promoted
                /\ e.notes = "promoted" /\ e.status = "active"

C11_WithdrawalPromotes ==
    [][\A e \in enrollments :
          ( /\ e.status # "withdrawn"
            /\ \E f \in enrollments' : f.id = e.id /\ f.status = "withdrawn"
            /\ Waiting(waitlist, e.activity_id) # {} )
          => \E w \in NewlyPromoted : w.activity_id = e.activity_id]_vars

\* C12: a registerStudent for a pair whose earlier enrollment was cancelled
\* (withdrawn), in an activity with a free seat, succeeds: it ends with exactly
\* one active row for the pair and the withdrawn row kept.
C12_RoundTrip ==
    [][\A p \in Procs :
          ( /\ RegisterFinishes(p)
            /\ \E e \in enrollments :
                  /\ e.student_id = req[p].student /\ e.activity_id = req[p].activity
                  /\ e.status = "withdrawn" /\ e.cancelled_at
            /\ ~ HasLive(req[p].student, req[p].activity)
            /\ UniqueWaitlist(waitlist, req[p].student, req[p].activity)
            /\ GradeInRange(req[p].activity, req[p].grade)
            /\ LiveCount(enrollments, req[p].activity) < activities[req[p].activity].quota )
          => /\ response'.code = "201_enrolled"
             /\ Cardinality({e \in enrollments' :
                    /\ e.student_id = req[p].student /\ e.activity_id = req[p].activity
                    /\ e.status = "active"}) = 1
             /\ \E e \in enrollments' :
                    /\ e.student_id = req[p].student /\ e.activity_id = req[p].activity
                    /\ e.status = "withdrawn"]_vars

\* C13: a cancelEnrollment that found the active enrollment of its student
\* never fails: it ends only by committing the withdrawal and it answers
\* success.
C13_CancelNeverFails ==
    [][\A p \in Procs :
          /\ InCancel(p) => pc'[p] # "idle"
          /\ (pc[p] = "cancel_committed" /\ pc'[p] = "idle")
             => /\ response'.code = "200_cancelled"
                /\ \E e \in enrollments : e.id = req[p].eid /\ e.status = "withdrawn"]_vars

\* C14: a cancelEnrollment step for an existing enrollment of the given
\* student whose status is active or approved marks the enrollment withdrawn
\* (with its cancellation timestamp) in the transaction it then commits.
C14_CancelWithdrawsLive ==
    [][\A p \in Procs, eid \in Eids, sid \in AllStudents :
          ( /\ CancelStart(p, eid, sid)
            /\ \E e \in enrollments :
                  e.id = eid /\ e.student_id = sid /\ e.status \in LiveStatuses )
          => /\ pc'[p] = "cancel_updated"
             /\ \E e \in TxEnrollments(p)' :
                   e.id = eid /\ e.status = "withdrawn" /\ e.cancelled_at]_vars

\* C15: when the capacity gate finds the activity full, a registerStudent
\* that passes the other checks, for a student with no live enrollment and no
\* waiting entry in the activity, answers success with waitlisted, inserts no
\* enrollment and appends exactly one waiting entry whose position is 1 plus
\* the maximum position among the waiting entries (1 when none waits); the
\* position returned is the stored one.
C15_FullMeansWaitlisted ==
    [][\A p \in Procs :
          ( /\ RegisterFinishes(p)
            /\ req[p].count >= Quota(activities[req[p].activity])
            /\ ~ HasLive(req[p].student, req[p].activity)
            /\ GradeInRange(req[p].activity, req[p].grade)
            /\ ~ \E w \in Waiting(waitlist, req[p].activity) :
                    w.student_id = req[p].student )
          => /\ response'.code = "200_waitlisted"
             /\ enrollments' = enrollments
             /\ \E w \in waitlist' :
                   /\ waitlist' \ waitlist = {w}
                   /\ waitlist \subseteq waitlist'
                   /\ w.student_id = req[p].student
                   /\ w.activity_id = req[p].activity
                   /\ w.status = "waiting"
                   /\ w.position =
                        IF Waiting(waitlist, req[p].activity) = {} THEN 1
                        ELSE 1 + Max({v.position : v \in Waiting(waitlist, req[p].activity)})
                   /\ response'.position = w.position]_vars

\* C16: under every interleaving of registerStudent and cancelEnrollment the
\* waiting entries of an activity have pairwise distinct students and pairwise
\* distinct positions, and an entry enqueued later has a strictly larger
\* position than every entry that was still waiting when it was enqueued.
C16_WaitingDistinct ==
    \A w, v \in waitlist :
        ( /\ w.id # v.id
          /\ w.activity_id = v.activity_id
          /\ w.status = "waiting" /\ v.status = "waiting" )
        => /\ w.student_id # v.student_id
           /\ w.position # v.position
           /\ (w.id < v.id => w.position < v.position)

C16_EnqueuedLast ==
    \A w \in waitlist' :
        (~ \E u \in waitlist : u.id = w.id)
        => /\ w.status = "waiting"
           /\ \A v \in Waiting(waitlist, w.activity_id) : v.position < w.position

C16_WaitlistPositions == [] C16_WaitingDistinct /\ [][C16_EnqueuedLast]_vars

\* an entry was enqueued behind a waiting one after an earlier entry of the
\* activity had left the queue by promotion
C16_Witness ==
    /\ response.op = "register" /\ response.code = "200_waitlisted"
    /\ response.position = 3
    /\ \E a \in Acts :
          /\ \E u \in waitlist :
                u.activity_id = a /\ u.status = "promoted" /\ u.position = 1
          /\ \E w, v \in Waiting(waitlist, a) :
                /\ w.id < v.id
                /\ \A u \in waitlist : u.activity_id = a => u.id < v.id \/ u.id = v.id
                /\ \E u \in waitlist : u.status = "promoted" /\ u.id < w.id
                /\ v.position = 3

\* C17: a registration that passes every other check inserts an active
\* enrollment exactly when the number of the activity's active or approved
\* enrollments is strictly below its capacity, and takes the waitlist path
\* exactly when that number has reached the capacity.
C17_GateCountsLive ==
    [][\A p \in Procs :
          ( /\ RegisterFinishes(p)
            /\ ~ HasLive(req[p].student, req[p].activity)
            /\ ~ HasTimeConflict(req[p].student, req[p].activity)
            /\ GradeInRange(req[p].activity, req[p].grade)
            /\ response'.code \in {"201_enrolled", "200_waitlisted"} )
          => LET hasRoom == LiveCount(enrollments, req[p].activity)
                              < activities[req[p].activity].quota
             IN  /\ response'.code = "201_enrolled" <=> hasRoom
                 /\ response'.code = "200_waitlisted" <=> ~ hasRoom]_vars

\* C18: withdrawn, rejected and completed are terminal for an enrollment row:
\* once a row has one of these statuses, no operation changes that row's
\* status again.
C18_TerminalStatuses ==
    [][\A e \in enrollments :
          e.status \in {"withdrawn", "rejected", "completed"}
          => \A f \in enrollments' : f.id = e.id => f.status = e.status]_vars

\* C19: updateEnrollmentStatus with a status outside the five valid ones, or
\* with none, fails with an invalid-status error, and with an unknown
\* enrollment id fails with not-found, in both cases changing no enrollment
\* row; with a valid status and a known id it sets the status of exactly that
\* row and changes no other row.
C19_StatusUpdate ==
    [][\A eid \in Eids, status \in StatusInputs :
          UpdateEnrollmentStatus(eid, status)
          => IF status \notin {"active", "approved", "rejected", "withdrawn", "completed"}
             THEN /\ response'.code \in {"400_status_required", "400_invalid_status"}
                  /\ enrollments' = enrollments
             ELSE IF ~ \E e \in enrollments : e.id = eid
             THEN /\ response'.code = "404_enrollment"
                  /\ enrollments' = enrollments
             ELSE /\ response'.code = "200_updated"
                  /\ \A e \in enrollments :
                        IF e.id = eid
                        THEN [e EXCEPT !.status = status] \in enrollments'
                        ELSE e \in enrollments'
                  /\ Cardinality(enrollments') = Cardinality(enrollments)]_vars

\* a row was set to completed while another row kept its status, and the last
\* request, for an id that has no row, was answered not-found
C19_Witness ==
    /\ response.op = "status" /\ response.code = "404_enrollment"
    /\ \E e, f \in enrollments :
          /\ e.id # f.id
          /\ e.status = "completed"
          /\ f.status = "active"
    /\ Cardinality(enrollments) < MaxEid

C21_OverrideBypassesQuota ==
    [][\A p \in Procs :
          ( /\ RegisterFinishes(p)
            /\ req[p].quotaOverride
            /\ req[p].count >= Quota(activities[req[p].activity])
            /\ GradeInRange(req[p].activity, req[p].grade)
            /\ UniqueEnrollment(enrollments, req[p].student, req[p].activity)
            /\ UniqueWaitlist(waitlist, req[p].student, req[p].activity) )
          => /\ response'.code = "201_enrolled"
             /\ waitlist' = waitlist
             /\ \E e \in enrollments' \ enrollments :
                   /\ e.student_id = req[p].student
                   /\ e.activity_id = req[p].activity
                   /\ e.status = "active"]_vars

\* C22: a failure of an audit-log or conflict-log write is never surfaced to
\* the caller and never alters the outcome: registerStudent and
\* cancelEnrollment report the same result and commit the same enrollment and
\* waitlist changes as they do when the log write succeeds.
C22_LogFailureSilent ==
    [][\A p \in Procs :
          /\ RegisterLogError(p)
             => /\ response'.code = RegisterOutcome(req[p])
                /\ (RegisterOutcome(req[p]) = "201_enrolled")
                   = (enrollments' # enrollments)
                /\ (RegisterOutcome(req[p]) = "200_waitlisted")
                   = (waitlist' # waitlist)
          /\ CancelAuditError(p)
             => /\ response'.code = "200_cancelled"
                /\ TablesUnchanged]_vars

\* C23: the conflict log is write-only for the control flow.  Two runs of
\* the same requests from states that differ only in the contents of the log
\* give the same responses and the same enrollment and waitlist tables: every
\* step a handler takes is also the step it takes, with the same response and
\* the same tables, pc, req and tx, when enrollment_conflicts holds any other
\* contents the model can represent.
AltLogs == {NoConflicts} \cup {LogEnrollmentConflict(NoConflicts, t) : t \in ConflictTypes}

\* the contents a handler step can leave: the log as it was, or with one more row
AltLogsNext(log) == {log} \cup {LogEnrollmentConflict(log, t) : t \in ConflictTypes}

C30_ConnectionReleasedOnce ==
    \A p \in Procs :
        /\ conn[p] \in {"pooled", "held", "in_tx"}
        /\ pc[p] = "idle" => conn[p] = "pooled"
        /\ pc[p] \in {"reg_locked", "cancel_updated", "cancel_inserted", "cancel_ready"}
           => conn[p] = "in_tx"
        /\ pc[p] = "cancel_committed" => conn[p] = "held"

\* a cancellation ended in the catch block after a registration was rejected
\* and another was waitlisted
C30_Witness ==
    /\ response.op = "cancel" /\ response.code = "500_error"
    /\ \A p \in Procs : pc[p] = "idle" /\ conn[p] = "pooled"
    /\ conflicts["grade_restriction"] >= 1
    /\ waitlist # {}

\* C25: a row of activity_enrollments disappears only in a step of
\* deleteEnrollment; registerStudent, enrollStudent, cancelEnrollment,
\* withdrawEnrollment, updateEnrollmentStatus and addPerformanceRemark keep
\* every row, and a withdrawal leaves the row in the table with status
\* withdrawn
RowIds(tbl) == {e.id : e \in tbl}

RowsKeptByUpdates ==
    /\ \A eid \in Eids :
          WithdrawEnrollment(eid) /\ response'.code = "200_withdrawn"
             => \E e \in enrollments' : e.id = eid /\ e.status = "withdrawn"
    /\ \A p \in Procs :
          CancelCommit(p)
             => \E e \in enrollments' : e.id = req[p].eid /\ e.status = "withdrawn"

C25_OnlyDeleteEnrollmentRemoves ==
    [][ /\ ( RowIds(enrollments) \ RowIds(enrollments') # {}
               => \E eid \in Eids : DeleteEnrollment(eid) )
        /\ RowsKeptByUpdates ]_vars

\* C25 (amended): a row of activity_enrollments disappears only in a step of
\* deleteEnrollment or, through the cascading foreign key, in a step of
\* deleteActivity that removes its activity; the other handlers keep every
\* row, and a withdrawal leaves the row in the table with status withdrawn
C25_OnlyDeletesRemove ==
    [][ /\ \A id \in RowIds(enrollments) \ RowIds(enrollments') :
              \/ DeleteEnrollment(id)
              \/ \E e \in enrollments :
                    e.id = id /\ DeleteActivity(e.activity_id)
        /\ RowsKeptByUpdates ]_vars

C25_Witness ==
    /\ response.op = "delete" /\ response.code = "200_deleted"
    /\ \E e \in enrollments :
          e.status = "withdrawn" /\ e.performance_remarks = "good"
    /\ nextEid > Cardinality(enrollments) + 1

\* C26: the capacity check and the INSERT of enrollStudent are atomic; when
\* only enrollStudent requests run, the number of active enrollments of an
\* activity never exceeds its max_students
C26_EnrollStudentAtomic ==
    \A a \in Acts : ActiveCount(enrollments, a) <= activities[a].max_students

\* C27: for an activity whose quota is 0, registerStudent never creates an
\* active enrollment; a registration that passes the other checks is
\* waitlisted
C27_ZeroQuotaWaitlists ==
    [][ \A p \in Procs :
          ( /\ RegisterFinishes(p)
            /\ activities[req[p].activity].quota = 0 )
          => /\ \A e \in enrollments' \ enrollments : e.status # "active"
             /\ ( RegisterOutcome(req[p]) \in {"201_enrolled", "200_waitlisted"}
                    => response'.code = "200_waitlisted" ) ]_vars

\* C28: in every state reached by registerStudent, cancelEnrollment,
\* withdrawEnrollment and updateEnrollmentStatus, no student has both an
\* active enrollment and a waiting waitlist entry for one activity
C28_NotEnrolledAndWaiting ==
    \A e \in enrollments, w \in waitlist :
        ~ ( /\ e.status = "active"
            /\ w.status = "waiting"
            /\ e.student_id = w.student_id
            /\ e.activity_id = w.activity_id )

\* C29: every request to a route guarded by requireCoach is eventually
\* resolved: the next handler is called for the instructor of the activity
\* or an administrator, and a 403 or 400 response is sent for anyone else
C29_CoachRequestResolved ==
    \A p \in Procs, u \in UserIds, a \in 0..NActs :
        ( /\ pc[p] = "route_matched"
          /\ req[p].op \in CoachRoutes
          /\ req[p].user = u
          /\ req[p].activity = a )
        ~> IF RequireCoachMiddleware(u, a) = "next"
           THEN pc[p] = "next_called"
           ELSE pc[p] = "idle" /\ response.code = RequireCoachMiddleware(u, a)

====
